---- MODULE Spec2Model ----
(***************************************************************************)
(* A model of the shell in src/app: the tokenizer (parser.py), the command *)
(* factory (command_factory.py), the commands (commands.py) and the REPL   *)
(* loop (shell.py); and the tokenizer of the one-file program (main.py).   *)
(*                                                                         *)
(* A Python str is modelled as a sequence of pieces; a piece is a TLA+     *)
(* string, one character for everything the tokenizer reads (or a run of   *)
(* ordinary characters, which the tokenizer reads one like the other), and *)
(* a whole fixed text for the messages the program prints.  The str is the *)
(* concatenation of its pieces.                                            *)
(***************************************************************************)
EXTENDS Integers, Sequences, FiniteSets, TLC

VARIABLES
    pc,            \* position of Shell.loop / of the function under study
    running,       \* Shell.running
    user_input,    \* the line read (Shell.loop), the argument of split_input
    command,       \* the Command built by Shell.eval
    output,        \* what command.execute() returned
    cwd,           \* the process's working directory (list of components)
    fs,            \* the file system: path (list of components) -> entry
    stdout,        \* the writes to standard output, in order
    stderr,        \* the writes to standard error, in order
    exit_status,   \* the exception that ended the process, once it has ended
    spawned,       \* the subprocess.run calls made, in order
    iter,          \* number of read steps taken so far
    i,             \* split_input: index into user_input (0-based)
    words,         \* split_input: tokens completed so far
    current_word,  \* split_input: the token being built
    error,         \* split_input: the ValueError raised, if any
    in_single_quote,   \* main.py split_input: inside '...'
    in_double_quote,   \* main.py split_input: inside "..."
    raw_tokens,        \* main.py split_input: tokens, the raw tokens completed
    current_token,     \* main.py split_input: the raw token being built
    processed_tokens   \* main.py split_input: the tokens returned

vars == <<pc, running, user_input, command, output, cwd, fs, stdout, stderr,
          exit_status, spawned, iter, i, words, current_word, error,
          in_single_quote, in_double_quote, raw_tokens, current_token,
          processed_tokens>>

shellVars == <<running, command, output, cwd, fs, stdout, stderr, exit_status,
               spawned, iter>>
mainVars == <<in_single_quote, in_double_quote, raw_tokens, current_token,
              processed_tokens>>
scanVars == <<i, words, current_word, error, mainVars>>

----------------------------------------------------------------------------
(* Bounds *)

MaxLen == 5
MaxWords == 4
MaxIter == 3

----------------------------------------------------------------------------
(* Text helpers *)

None == [kind |-> "None"]
Str(t) == [kind |-> "str", text |-> t]
NoError == <<>>
EmptyText == <<>>

At(s, k) == s[k + 1]

RECURSIVE SeqsUpTo(_, _)
SeqsUpTo(S, n) ==
    IF n = 0 THEN {<<>>}
    ELSE LET shorter == SeqsUpTo(S, n - 1)
         IN shorter \cup {Append(t, x) : t \in {u \in shorter : Len(u) = n - 1}, x \in S}

RECURSIVE Join(_, _)
Join(tokens, sep) ==
    IF tokens = <<>> THEN <<>>
    ELSE IF Len(tokens) = 1 THEN tokens[1]
    ELSE tokens[1] \o sep \o Join(Tail(tokens), sep)

IsSpace(c) == c \in {" ", "\t", "\n", "\r"}

RECURSIVE LStrip(_)
LStrip(s) == IF s # <<>> /\ IsSpace(Head(s)) THEN LStrip(Tail(s)) ELSE s

RECURSIVE RStrip(_)
RStrip(s) ==
    IF s # <<>> /\ IsSpace(s[Len(s)]) THEN RStrip(SubSeq(s, 1, Len(s) - 1)) ELSE s

Strip(s) == RStrip(LStrip(s))

----------------------------------------------------------------------------
(* parser.py: QuoteProcessor.split_input *)

UnclosedSingle == <<"Unclosed single quote in input">>
UnclosedDouble == <<"Unclosed double quote in input">>

DoubleQuoteEscapes == {"\"", "\\", "$", "\n"}

ScanStart == [i |-> 0, words |-> <<>>, current_word |-> <<>>, error |-> NoError]

RECURSIVE SkipSpaces(_, _)
SkipSpaces(s, k) ==
    IF k < Len(s) /\ IsSpace(At(s, k)) THEN SkipSpaces(s, k + 1) ELSE k

Flush(ws, cw) == IF cw # <<>> THEN Append(ws, cw) ELSE ws

\* Variant: the word is flushed without the test for the empty word.
WhitespaceStep_FlushEmpty(s, st) ==
    [st EXCEPT !.i = SkipSpaces(s, st.i),
               !.words = Append(st.words, st.current_word),
               !.current_word = <<>>]

WhitespaceStep(s, st) ==
    [st EXCEPT !.i = SkipSpaces(s, st.i),
               !.words = Flush(st.words, st.current_word),
               !.current_word = <<>>]

RECURSIVE ScanSingle(_, _, _)
ScanSingle(s, k, cw) ==
    IF k < Len(s) /\ At(s, k) # "'"
    THEN ScanSingle(s, k + 1, Append(cw, At(s, k)))
    ELSE [i |-> k, current_word |-> cw]

\* Variant: the end of input is taken as the closing quote.
SingleQuoteStep_NoRaise(s, st) ==
    LET r == ScanSingle(s, st.i + 1, st.current_word)
    IN [st EXCEPT !.i = r.i + 1, !.current_word = r.current_word]

SingleQuoteStep(s, st) ==
    LET r == ScanSingle(s, st.i + 1, st.current_word)
    IN IF r.i >= Len(s)
       THEN [st EXCEPT !.i = r.i, !.current_word = r.current_word,
                       !.error = UnclosedSingle]
       ELSE [st EXCEPT !.i = r.i + 1, !.current_word = r.current_word]

\* Variant: every backslash is kept with the character after it.
RECURSIVE ScanDouble_KeepBackslash(_, _, _)
ScanDouble_KeepBackslash(s, k, cw) ==
    IF k < Len(s) /\ At(s, k) # "\""
    THEN IF At(s, k) = "\\" /\ k + 1 < Len(s)
         THEN ScanDouble_KeepBackslash(s, k + 2, cw \o <<"\\", At(s, k + 1)>>)
         ELSE ScanDouble_KeepBackslash(s, k + 1, Append(cw, At(s, k)))
    ELSE [i |-> k, current_word |-> cw]

RECURSIVE ScanDouble(_, _, _)
ScanDouble(s, k, cw) ==
    IF k < Len(s) /\ At(s, k) # "\""
    THEN IF At(s, k) = "\\" /\ k + 1 < Len(s)
         THEN IF At(s, k + 1) \in DoubleQuoteEscapes
              THEN ScanDouble(s, k + 2, Append(cw, At(s, k + 1)))
              ELSE ScanDouble(s, k + 2, cw \o <<"\\", At(s, k + 1)>>)
         ELSE ScanDouble(s, k + 1, Append(cw, At(s, k)))
    ELSE [i |-> k, current_word |-> cw]

DoubleQuoteStep(s, st) ==
    LET r == ScanDouble(s, st.i + 1, st.current_word)
    IN IF r.i >= Len(s)
       THEN [st EXCEPT !.i = r.i, !.current_word = r.current_word,
                       !.error = UnclosedDouble]
       ELSE [st EXCEPT !.i = r.i + 1, !.current_word = r.current_word]

\* Variant: the backslash is kept with the character after it.
BackslashStep_KeepBackslash(s, st) ==
    IF st.i + 1 < Len(s)
    THEN [st EXCEPT !.i = st.i + 2,
                    !.current_word = st.current_word \o <<"\\", At(s, st.i + 1)>>]
    ELSE [st EXCEPT !.i = st.i + 1,
                    !.current_word = Append(st.current_word, "\\")]

BackslashStep(s, st) ==
    IF st.i + 1 < Len(s)
    THEN [st EXCEPT !.i = st.i + 2,
                    !.current_word = Append(st.current_word, At(s, st.i + 1))]
    ELSE [st EXCEPT !.i = st.i + 1,
                    !.current_word = Append(st.current_word, "\\")]

\* Variant: an ordinary character is appended without moving the index.
NormalStep_NoAdvance(s, st) ==
    [st EXCEPT !.current_word = Append(st.current_word, At(s, st.i))]

NormalStep(s, st) ==
    [st EXCEPT !.i = st.i + 1,
               !.current_word = Append(st.current_word, At(s, st.i))]

\* One iteration of the outer while loop.
OuterStep(s, st) ==
    LET char == At(s, st.i)
    IN IF IsSpace(char) THEN WhitespaceStep(s, st)
       ELSE IF char = "'" THEN SingleQuoteStep(s, st)
       ELSE IF char = "\"" THEN DoubleQuoteStep(s, st)
       ELSE IF char = "\\" THEN BackslashStep(s, st)
       ELSE NormalStep(s, st)

\* Variant: the last word is flushed without the test for the empty word.
ReturnWords_FlushEmpty(st) ==
    [st EXCEPT !.words = Append(st.words, st.current_word)]

\* After the loop: flush the last word and return.
ReturnWords(st) ==
    [st EXCEPT !.words = Flush(st.words, st.current_word)]

RECURSIVE ScanLoop(_, _)
ScanLoop(s, st) ==
    IF st.error # NoError THEN st
    ELSE IF st.i < Len(s) THEN ScanLoop(s, OuterStep(s, st))
    ELSE ReturnWords(st)

\* The result of split_input: the ValueError raised (error), or the tokens.
split_input(s) ==
    LET st == ScanLoop(s, ScanStart)
    IN [error |-> st.error,
        words |-> IF st.error # NoError THEN <<>> ELSE st.words]

----------------------------------------------------------------------------
(* main.py: QuoteProcessor, the tokenizer of the one-file program *)

\* text[1:-1]
StripEnds(text) ==
    IF Len(text) >= 2 THEN SubSeq(text, 2, Len(text) - 1) ELSE <<>>

StartsAndEndsWith(text, q) ==
    text # <<>> /\ Head(text) = q /\ text[Len(text)] = q

handle_single_quotes(text) ==
    IF StartsAndEndsWith(text, "'") THEN StripEnds(text) ELSE text

\* The while loop of handle_double_quotes, from index k of content.
RECURSIVE DoubleQuoteContent(_, _, _)
DoubleQuoteContent(content, k, processed) ==
    IF k < Len(content)
    THEN IF At(content, k) = "\\" /\ k + 1 < Len(content)
         THEN IF At(content, k + 1) \in DoubleQuoteEscapes
              THEN DoubleQuoteContent(content, k + 2,
                                      Append(processed, At(content, k + 1)))
              ELSE DoubleQuoteContent(content, k + 2,
                                      processed \o <<"\\", At(content, k + 1)>>)
         ELSE DoubleQuoteContent(content, k + 1, Append(processed, At(content, k)))
    ELSE processed

handle_double_quotes(text) ==
    IF StartsAndEndsWith(text, "\"")
    THEN DoubleQuoteContent(StripEnds(text), 0, <<>>)
    ELSE text

RECURSIVE UnquotedBackslashes(_, _, _)
UnquotedBackslashes(token, k, processed) ==
    IF k < Len(token)
    THEN IF At(token, k) = "\\" /\ k + 1 < Len(token)
         THEN UnquotedBackslashes(token, k + 2, Append(processed, At(token, k + 1)))
         ELSE UnquotedBackslashes(token, k + 1, Append(processed, At(token, k)))
    ELSE processed

handle_unquoted_backslashes(token) == UnquotedBackslashes(token, 0, <<>>)

MainStart == [i |-> 0, tokens |-> <<>>, current_token |-> <<>>,
              in_single_quote |-> FALSE, in_double_quote |-> FALSE]

\* One iteration of the while loop of main.py's split_input.
MainStep(s, st) ==
    LET char == At(s, st.i)
        next == [st EXCEPT !.i = st.i + 1]
    IN IF char = "'" /\ ~st.in_double_quote
       THEN [next EXCEPT !.in_single_quote = ~st.in_single_quote]
       ELSE IF char = "\"" /\ ~st.in_single_quote
       THEN [next EXCEPT !.in_double_quote = ~st.in_double_quote]
       ELSE IF char = " " /\ ~st.in_single_quote /\ ~st.in_double_quote
       THEN [next EXCEPT !.tokens = Flush(st.tokens, st.current_token),
                         !.current_token = <<>>]
       ELSE [next EXCEPT !.current_token = Append(st.current_token, char)]

\* for token in tokens: the token with its quotes and backslashes handled.
ProcessToken(token) ==
    IF StartsAndEndsWith(token, "'") THEN handle_single_quotes(token)
    ELSE IF StartsAndEndsWith(token, "\"") THEN handle_double_quotes(token)
    ELSE handle_unquoted_backslashes(token)

\* After the loop: the last token, the unclosed quotes, the processed tokens.
MainFinish(st) ==
    LET all == Flush(st.tokens, st.current_token)
    IN IF st.in_single_quote THEN [error |-> UnclosedSingle, words |-> <<>>]
       ELSE IF st.in_double_quote THEN [error |-> UnclosedDouble, words |-> <<>>]
       ELSE [error |-> NoError,
             words |-> [k \in 1..Len(all) |-> ProcessToken(all[k])]]

RECURSIVE MainLoop(_, _)
MainLoop(s, st) ==
    IF st.i < Len(s) THEN MainLoop(s, MainStep(s, st)) ELSE MainFinish(st)

\* The result of main.py's split_input: the ValueError raised, or the tokens.
main_split_input(s) == MainLoop(s, MainStart)

----------------------------------------------------------------------------
(* commands.py: the Command classes, as records *)

NoCommand == [kind |-> "NoCommand"]
HelpCommand == [kind |-> "Help"]
ExitCommand(exit_code) == [kind |-> "Exit", exit_code |-> exit_code]
EchoCommand(message) == [kind |-> "Echo", message |-> message]
PwdCommand == [kind |-> "Pwd"]
CdCommand(target_directory) == [kind |-> "Cd", target_directory |-> target_directory]
TypeCommand(command_name) == [kind |-> "Type", command_name |-> command_name]
InvalidCommand(command_name) == [kind |-> "Invalid", command_name |-> command_name]
ExternalCommand(command_name, arguments) ==
    [kind |-> "External", command_name |-> command_name, arguments |-> arguments]
RedirectCommand(cmd, filename) ==
    [kind |-> "Redirect", command |-> cmd, filename |-> filename]

----------------------------------------------------------------------------
(* command_factory.py: CommandFactory.get_command *)

\* os.path.expanduser("~"): the home directory of the environment.
HomeDir == <<"/">>

Digits == <<"0", "1", "2", "3", "4", "5", "6", "7", "8", "9">>
IsDigit(c) == \E d \in 1..10 : Digits[d] = c

\* The digits of an int literal: underscores only between digits.
RECURSIVE ParseDigits(_, _, _)
ParseDigits(s, acc, afterDigit) ==
    IF s = <<>> THEN [ok |-> afterDigit, digits |-> acc]
    ELSE IF IsDigit(Head(s))
         THEN ParseDigits(Tail(s), Append(acc, Head(s)), TRUE)
    ELSE IF Head(s) = "_" /\ afterDigit /\ Len(s) > 1
         THEN ParseDigits(Tail(s), acc, FALSE)
    ELSE [ok |-> FALSE, digits |-> <<>>]

RECURSIVE StripZeros(_)
StripZeros(ds) == IF Len(ds) > 1 /\ Head(ds) = "0" THEN StripZeros(Tail(ds)) ELSE ds

\* A Python int, of any size: its decimal numeral, "-" first when negative.
PyInt(negative, digits) ==
    LET ds == StripZeros(digits)
    IN IF negative /\ ds # <<"0">> THEN <<"-">> \o ds ELSE ds

\* int(token): surrounding whitespace, an optional sign, decimal digits; no
\* bound on the value.
ParseInt(token) ==
    LET t == Strip(token)
        signed == t # <<>> /\ Head(t) \in {"+", "-"}
        r == ParseDigits(IF signed THEN Tail(t) ELSE t, <<>>, FALSE)
    IN IF ~r.ok THEN [ok |-> FALSE, value |-> PyInt(FALSE, <<"0">>)]
       ELSE [ok |-> TRUE, value |-> PyInt(signed /\ Head(t) = "-", r.digits)]

IsRedirectOperator(token) == token \in {<<">">>, <<"1", ">">>}

\* Variant: the scan does not stop at the first operator, the last one wins.
RECURSIVE FirstRedirect_Last(_, _)
FirstRedirect_Last(tokens, k) ==
    IF k >= Len(tokens) THEN -1
    ELSE LET later == FirstRedirect_Last(tokens, k + 1)
         IN IF later # -1 THEN later
            ELSE IF IsRedirectOperator(At(tokens, k)) THEN k
            ELSE -1

\* The index of the first redirection operator (0-based), -1 for None.
RECURSIVE FirstRedirect(_, _)
FirstRedirect(tokens, k) ==
    IF k >= Len(tokens) THEN -1
    ELSE IF IsRedirectOperator(At(tokens, k)) THEN k
    ELSE FirstRedirect(tokens, k + 1)

echo == <<"e", "c", "h", "o">>
exit == <<"e", "x", "i", "t">>
help == <<"h", "e", "l", "p">>
pwd == <<"p", "w", "d">>
cd == <<"c", "d">>
type == <<"t", "y", "p", "e">>

\* The dispatch on tokens[0], with no redirection operator among the tokens.
Dispatch(tokens) ==
    LET command_name == tokens[1]
    IN IF command_name = help THEN HelpCommand
       ELSE IF command_name = exit
            THEN IF Len(tokens) > 1
                 THEN LET n == ParseInt(tokens[2])
                      IN IF n.ok THEN ExitCommand(n.value) ELSE InvalidCommand(exit)
                 ELSE ExitCommand(PyInt(FALSE, <<"0">>))
       ELSE IF command_name = echo
            THEN EchoCommand(IF Len(tokens) > 1 THEN Join(Tail(tokens), <<" ">>) ELSE <<>>)
       ELSE IF command_name = pwd THEN PwdCommand
       ELSE IF command_name = cd
            THEN CdCommand(IF Len(tokens) > 1 THEN tokens[2] ELSE HomeDir)
       ELSE IF command_name = type
            THEN IF Len(tokens) > 1 THEN TypeCommand(tokens[2]) ELSE InvalidCommand(type)
       ELSE ExternalCommand(command_name, Tail(tokens))

NoFileSpecified == <<"No file specified for redirection">>

\* The string get_command calls itself on: the tokens before the operator, rejoined.
CommandStr(tokens, redir_index) == Join(SubSeq(tokens, 1, redir_index), <<" ">>)

\* Variant: no test for the operator being the last token; the target is
\* the token after the operator, empty when nothing follows.
RECURSIVE get_command_NoTargetCheck(_)
get_command_NoTargetCheck(line) ==
    LET r == split_input(line)
        tokens == r.words
        redir_index == FirstRedirect(tokens, 0)
    IN IF r.error # NoError THEN InvalidCommand(r.error)
       ELSE IF tokens = <<>> THEN InvalidCommand(<<>>)
       ELSE IF redir_index # -1
            THEN RedirectCommand(
                     get_command_NoTargetCheck(CommandStr(tokens, redir_index)),
                     IF redir_index + 1 < Len(tokens)
                     THEN At(tokens, redir_index + 1) ELSE <<>>)
       ELSE Dispatch(tokens)

RECURSIVE get_command(_)
get_command(line) ==
    LET r == split_input(line)
        tokens == r.words
        redir_index == FirstRedirect(tokens, 0)
    IN IF r.error # NoError THEN InvalidCommand(r.error)
       ELSE IF tokens = <<>> THEN InvalidCommand(<<>>)
       ELSE IF redir_index # -1
            THEN IF redir_index = Len(tokens) - 1
                 THEN InvalidCommand(NoFileSpecified)
                 ELSE RedirectCommand(get_command(CommandStr(tokens, redir_index)),
                                      At(tokens, redir_index + 1))
       ELSE Dispatch(tokens)

----------------------------------------------------------------------------
(* The environment the commands act on: directories, files, PATH *)

Missing == [type |-> "missing"]
Directory(access) == [type |-> "dir", access |-> access]
File(content, executable) ==
    [type |-> "file", content |-> content, executable |-> executable]

Lookup(f, path) ==
    IF path = <<>> THEN Directory(TRUE)
    ELSE IF path \in DOMAIN f THEN f[path] ELSE Missing

Store(f, path, entry) ==
    [p \in DOMAIN f \cup {path} |-> IF p = path THEN entry ELSE f[p]]

AddComponent(acc, cur) == IF cur = <<>> \/ cur = <<".">> THEN acc ELSE Append(acc, cur)

RECURSIVE SplitPath(_, _, _)
SplitPath(s, cur, acc) ==
    IF s = <<>> THEN AddComponent(acc, cur)
    ELSE IF Head(s) = "/" THEN SplitPath(Tail(s), <<>>, AddComponent(acc, cur))
    ELSE SplitPath(Tail(s), Append(cur, Head(s)), acc)

Components(text) == SplitPath(text, <<>>, <<>>)

AbsPath(dir, text) ==
    IF text # <<>> /\ Head(text) = "/" THEN Components(text) ELSE dir \o Components(text)

RECURSIVE PathText(_)
PathText(path) ==
    IF path = <<>> THEN <<"/">>
    ELSE IF Len(path) = 1 THEN <<"/">> \o path[1]
    ELSE <<"/">> \o path[1] \o PathText(Tail(path))

\* The longest name of a directory entry (ENAMETOOLONG beyond it).
NAME_MAX == 255

\* len() of a str: the characters of its pieces.
RECURSIVE TextLen(_)
TextLen(t) == IF t = <<>> THEN 0 ELSE Len(Head(t)) + TextLen(Tail(t))

\* The error of entering the directories path[1..k], ..., path[1..Len(path)].
RECURSIVE WalkError(_, _, _)
WalkError(f, path, k) ==
    IF k > Len(path) THEN "none"
    ELSE LET e == Lookup(f, SubSeq(path, 1, k))
         IN IF TextLen(path[k]) > NAME_MAX THEN "OSError"
            ELSE IF e.type = "missing" THEN "FileNotFoundError"
            ELSE IF e.type = "file" THEN "NotADirectoryError"
            ELSE IF ~e.access THEN "PermissionError"
            ELSE WalkError(f, path, k + 1)

\* os.chdir(text) from directory dir.
chdir(dir, f, text) ==
    LET path == AbsPath(dir, text)
        err == IF text = <<>> THEN "FileNotFoundError" ELSE WalkError(f, path, 1)
    IN [error |-> err, cwd |-> IF err = "none" THEN path ELSE dir]

\* open(text, "w") from directory dir: the error, or the file created or truncated.
open_w(dir, f, text) ==
    LET path == AbsPath(dir, text)
        parent == SubSeq(path, 1, Len(path) - 1)
        walk == WalkError(f, parent, 1)
        old == Lookup(f, path)
        err == IF text = <<>> THEN "FileNotFoundError"
               ELSE IF path = <<>> THEN "IsADirectoryError"
               ELSE IF walk # "none" THEN walk
               ELSE IF TextLen(path[Len(path)]) > NAME_MAX THEN "OSError"
               ELSE IF old.type = "dir" THEN "IsADirectoryError"
               ELSE "none"
    IN [error |-> err,
        path |-> path,
        fs |-> IF err # "none" THEN f
               ELSE Store(f, path,
                          File(<<>>, IF old.type = "file" THEN old.executable ELSE FALSE))]

\* os.path.join(a, b)
os_path_join(a, b) ==
    IF b # <<>> /\ Head(b) = "/" THEN b
    ELSE IF a = <<>> \/ a[Len(a)] = "/" THEN a \o b
    ELSE a \o <<"/">> \o b

\* os.path.exists / os.path.isfile and os.access(X_OK) of a path text.
Entry(dir, f, text) ==
    LET path == AbsPath(dir, text)
    IN IF \/ text = <<>>
          \/ WalkError(f, SubSeq(path, 1, Len(path) - 1), 1) # "none"
          \/ (path # <<>> /\ TextLen(path[Len(path)]) > NAME_MAX)
       THEN Missing
       ELSE Lookup(f, path)

os_path_exists(dir, f, text) == Entry(dir, f, text).type # "missing"

IsExecutableFile(dir, f, text) ==
    LET e == Entry(dir, f, text) IN e.type = "file" /\ e.executable

\* os.environ["PATH"].split(os.pathsep)
PathDirs == << <<"/", "d">>, <<"/", "b">> >>

InitFs ==
    (<< <<"d">> >> :> Directory(TRUE))
    @@ (<< <<"n">> >> :> Directory(FALSE))
    @@ (<< <<"b">> >> :> Directory(TRUE))
    @@ (<< <<"b">>, <<"f">> >> :> File(<<"#">>, TRUE))

\* What subprocess.run of a program can give: its captured output, or an exception.
ChildResults ==
    { [raised |-> FALSE, stdout |-> <<>>, stderr |-> <<>>],
      [raised |-> FALSE, stdout |-> <<"o", "\n">>, stderr |-> <<"w", "\n">>],
      [raised |-> TRUE, stdout |-> <<>>, stderr |-> <<>>] }

----------------------------------------------------------------------------
(* commands.py: execute() *)

\* The result of one execute(): the value returned (ret), or the exception
\* that leaves it (exit), with the working directory, the files, the writes
\* to standard error and the subprocess.run calls it leaves.
Returned(ret, dir, f, err) ==
    [ret |-> ret, exit |-> None, cwd |-> dir, fs |-> f, stderr |-> err,
     spawned |-> <<>>]
Raised(code, dir, f, err) ==
    [ret |-> None, exit |-> [kind |-> "SystemExit", code |-> code],
     cwd |-> dir, fs |-> f, stderr |-> err, spawned |-> <<>>]
\* An exception no handler of execute() names.
Uncaught(e, dir, f, err) ==
    [ret |-> None, exit |-> [kind |-> e],
     cwd |-> dir, fs |-> f, stderr |-> err, spawned |-> <<>>]

HelpText ==
    <<"Available commands: help, exit, echo [message], type [command], pwd, cd [directory]">>
NotFoundSuffix == <<": command not found">>

RStripSlash(s) == IF s # <<>> /\ s[Len(s)] = "/" THEN SubSeq(s, 1, Len(s) - 1) ELSE s

\* os.path.expanduser
expanduser(path) ==
    IF path # <<>> /\ Head(path) = "~" /\ (Len(path) = 1 \/ path[2] = "/")
    THEN LET p == RStripSlash(HomeDir) \o Tail(path)
         IN IF p = <<>> THEN <<"/">> ELSE p
    ELSE path

\* Variant: the working directory is the target also when entering it failed.
CdExecute_MovesOnError(cmd, dir, f) ==
    LET r == chdir(dir, f, expanduser(cmd.target_directory))
        to == AbsPath(dir, expanduser(cmd.target_directory))
    IN IF r.error = "FileNotFoundError"
       THEN Returned(Str(<<"cd: ">> \o cmd.target_directory
                         \o <<": No such file or directory">>), to, f, <<>>)
       ELSE IF r.error = "NotADirectoryError"
       THEN Returned(Str(<<"cd: ">> \o cmd.target_directory
                         \o <<": Not a directory">>), to, f, <<>>)
       ELSE IF r.error = "PermissionError"
       THEN Returned(Str(<<"cd: ">> \o cmd.target_directory
                         \o <<": Permission denied">>), to, f, <<>>)
       ELSE IF r.error # "none" THEN Uncaught(r.error, dir, f, <<>>)
       ELSE Returned(None, r.cwd, f, <<>>)

CdExecute(cmd, dir, f) ==
    LET r == chdir(dir, f, expanduser(cmd.target_directory))
    IN IF r.error = "FileNotFoundError"
       THEN Returned(Str(<<"cd: ">> \o cmd.target_directory
                         \o <<": No such file or directory">>), dir, f, <<>>)
       ELSE IF r.error = "NotADirectoryError"
       THEN Returned(Str(<<"cd: ">> \o cmd.target_directory
                         \o <<": Not a directory">>), dir, f, <<>>)
       ELSE IF r.error = "PermissionError"
       THEN Returned(Str(<<"cd: ">> \o cmd.target_directory
                         \o <<": Permission denied">>), dir, f, <<>>)
       ELSE IF r.error # "none" THEN Uncaught(r.error, dir, f, <<>>)
       ELSE Returned(None, r.cwd, f, <<>>)

Builtins == {help, exit, echo, type, pwd, cd}

\* Variant: only an executable regular file counts as found.
RECURSIVE FirstExisting_ExecutableOnly(_, _, _, _)
FirstExisting_ExecutableOnly(dir, f, name, k) ==
    IF k > Len(PathDirs) THEN 0
    ELSE IF IsExecutableFile(dir, f, os_path_join(PathDirs[k], name)) THEN k
    ELSE FirstExisting_ExecutableOnly(dir, f, name, k + 1)

\* TypeCommand.execute: the first directory of PATH, from index k on, that
\* has an entry called name; 0 if none.
RECURSIVE FirstExisting(_, _, _, _)
FirstExisting(dir, f, name, k) ==
    IF k > Len(PathDirs) THEN 0
    ELSE IF os_path_exists(dir, f, os_path_join(PathDirs[k], name)) THEN k
    ELSE FirstExisting(dir, f, name, k + 1)

\* Variant: any entry called name counts, whatever its kind and permissions.
RECURSIVE FirstExecutable_AnyEntry(_, _, _, _)
FirstExecutable_AnyEntry(dir, f, name, k) ==
    IF k > Len(PathDirs) THEN 0
    ELSE IF os_path_exists(dir, f, os_path_join(PathDirs[k], name)) THEN k
    ELSE FirstExecutable_AnyEntry(dir, f, name, k + 1)

\* ExternalCommand.execute: the first directory of PATH, from index k on,
\* whose entry called name is an executable regular file; 0 if none.
RECURSIVE FirstExecutable(_, _, _, _)
FirstExecutable(dir, f, name, k) ==
    IF k > Len(PathDirs) THEN 0
    ELSE IF IsExecutableFile(dir, f, os_path_join(PathDirs[k], name)) THEN k
    ELSE FirstExecutable(dir, f, name, k + 1)

TypeExecute(cmd, dir, f) ==
    LET k == FirstExisting(dir, f, cmd.command_name, 1)
    IN IF cmd.command_name \in Builtins
       THEN Returned(Str(cmd.command_name \o <<" is a shell builtin">>), dir, f, <<>>)
       ELSE IF k # 0
       THEN Returned(Str(cmd.command_name \o <<" is ">>
                         \o os_path_join(PathDirs[k], cmd.command_name)), dir, f, <<>>)
       ELSE Returned(Str(cmd.command_name \o <<": not found">>), dir, f, <<>>)

\* One subprocess.run call: the program file and the argument vector.
Spawn(full_path, args) == [executable |-> full_path, args |-> args]

ExternalExecute(cmd, dir, f) ==
    LET k == FirstExecutable(dir, f, cmd.command_name, 1)
        call == Spawn(os_path_join(PathDirs[k], cmd.command_name),
                      <<cmd.command_name>> \o cmd.arguments)
    IN IF k = 0
       THEN {Returned(Str(cmd.command_name \o NotFoundSuffix), dir, f, <<>>)}
       ELSE {[(IF c.raised
               THEN Returned(Str(<<"Error while executing ">> \o cmd.command_name
                                 \o <<": ">> \o <<"OSError">>), dir, f, <<>>)
               ELSE Returned(Str(c.stdout), dir, f,
                             IF c.stderr # <<>> THEN <<c.stderr>> ELSE <<>>))
              EXCEPT !.spawned = <<call>>]
             : c \in ChildResults}

WriteWarning(filename, e) ==
    <<"Error writing to file ">> \o filename \o <<": ">> \o <<e>> \o <<"\n">>

\* RedirectCommand.execute, the try block: open the file and write the output r.ret.
WriteOutput(r, filename) ==
    LET o == open_w(r.cwd, r.fs, filename)
        w == IF o.error # "none"
             THEN Returned(Str(<<>>), r.cwd, r.fs,
                           Append(r.stderr, WriteWarning(filename, o.error)))
             ELSE IF r.ret = None
             THEN Returned(Str(<<>>), r.cwd, o.fs,
                           Append(r.stderr, WriteWarning(filename, "TypeError")))
             ELSE Returned(Str(<<>>), r.cwd,
                           Store(o.fs, o.path,
                                 [o.fs[o.path] EXCEPT !.content = r.ret.text]),
                           r.stderr)
    IN [w EXCEPT !.spawned = r.spawned]

\* Variant: the SystemExit of the inner command is caught like a write error.
RedirectWrite_SwallowsExit(r, filename) ==
    WriteOutput([r EXCEPT !.exit = None], filename)

\* Variant: the inner command's output is returned as well as written.
RedirectWrite_ReturnsOutput(r, filename) ==
    IF r.exit # None THEN r
    ELSE [WriteOutput(r, filename) EXCEPT !.ret = IF r.ret = None THEN Str(<<>>) ELSE r.ret]

\* RedirectCommand.execute once the inner command has given r: an exception
\* of the inner command (SystemExit or other) passes through.
RedirectWrite(r, filename) ==
    IF r.exit # None THEN r ELSE WriteOutput(r, filename)

\* command.execute(): the set of results it can give.
RECURSIVE execute(_, _, _)
execute(cmd, dir, f) ==
    IF cmd.kind = "Help" THEN {Returned(Str(HelpText), dir, f, <<>>)}
    ELSE IF cmd.kind = "Exit" THEN {Raised(cmd.exit_code, dir, f, <<>>)}
    ELSE IF cmd.kind = "Echo" THEN {Returned(Str(cmd.message), dir, f, <<>>)}
    ELSE IF cmd.kind = "Pwd" THEN {Returned(Str(PathText(dir)), dir, f, <<>>)}
    ELSE IF cmd.kind = "Cd" THEN {CdExecute(cmd, dir, f)}
    ELSE IF cmd.kind = "Type" THEN {TypeExecute(cmd, dir, f)}
    ELSE IF cmd.kind = "Invalid"
         THEN {Returned(Str(cmd.command_name \o NotFoundSuffix), dir, f, <<>>)}
    ELSE IF cmd.kind = "External" THEN ExternalExecute(cmd, dir, f)
    ELSE {RedirectWrite(r, cmd.filename) : r \in execute(cmd.command, dir, f)}

----------------------------------------------------------------------------
(* shell.py: Shell *)

Prompt == <<"$ ">>
InterruptNotice == <<"\nCtrl+C detected. Type 'exit' to quit.", "\n">>
EofNotice == <<"\nEOF detected. Type 'exit' to quit.", "\n">>

\* The lines the terminal gives the REPL: a command, with or without a redirection.
\* A name of NAME_MAX + 1 characters, as one run of ordinary characters.
LongName ==
    LET a4 == "aaaa"
        a16 == a4 \o a4 \o a4 \o a4
        a64 == a16 \o a16 \o a16 \o a16
    IN <<a64 \o a64 \o a64 \o a64>>
CommandWords ==
    { <<echo, <<"3">> >>, <<exit>>, <<exit, <<"3">> >>, <<cd>>, <<cd, <<"d">> >>,
      <<cd, <<"f">> >>, <<cd, <<"n">> >>, <<cd, LongName>>, <<pwd>>, <<<<"f">>>>,
      <<<<"'">>>> }
RedirectWords ==
    { <<>>, << <<">">>, <<"f">> >>, << <<"1", ">">>, <<"d">> >> }
Lines == { Join(c \o r, <<" ">>) : c \in CommandWords, r \in RedirectWords }

\* Python's truth value of what execute() returned: None and "" are false.
Truthy(o) == o # None /\ o.text # <<>>

\* Shell.read returning a line: the prompt, then input().strip().
Read ==
    /\ pc = "read" /\ running /\ iter < MaxIter
    /\ \E line \in Lines : user_input' = Strip(line)
    /\ stdout' = Append(stdout, Prompt)
    /\ iter' = iter + 1
    /\ pc' = "eval"
    /\ UNCHANGED <<running, command, output, cwd, fs, stderr, exit_status, spawned,
                   scanVars>>

\* Shell.read interrupted: input() raises KeyboardInterrupt, the loop reports it.
ReadInterrupt ==
    /\ pc = "read" /\ running /\ iter < MaxIter
    /\ stdout' = stdout \o <<Prompt, InterruptNotice>>
    /\ iter' = iter + 1
    /\ pc' = "read"
    /\ UNCHANGED <<running, user_input, command, output, cwd, fs, stderr,
                   exit_status, spawned, scanVars>>

\* Variant: end of input stops the loop.
ReadEOF_StopsLoop ==
    /\ pc = "read" /\ running /\ iter < MaxIter
    /\ stdout' = stdout \o <<Prompt, EofNotice>>
    /\ iter' = iter + 1
    /\ pc' = "read"
    /\ running' = FALSE
    /\ UNCHANGED <<user_input, command, output, cwd, fs, stderr, exit_status, spawned,
                   scanVars>>

\* Shell.read at end of input: input() raises EOFError, the loop reports it.
ReadEOF ==
    /\ pc = "read" /\ running /\ iter < MaxIter
    /\ stdout' = stdout \o <<Prompt, EofNotice>>
    /\ iter' = iter + 1
    /\ pc' = "read"
    /\ UNCHANGED <<running, user_input, command, output, cwd, fs, stderr,
                   exit_status, spawned, scanVars>>

\* Shell.eval
Eval ==
    /\ pc = "eval"
    /\ command' = get_command(user_input)
    /\ pc' = "execute"
    /\ UNCHANGED <<running, user_input, output, cwd, fs, stdout, stderr, exit_status,
                   spawned, iter, scanVars>>

\* What the interpreter writes to standard error for an exception nothing caught.
Traceback(e) == <<"Traceback (most recent call last):", e>>

\* output = command.execute(); a SystemExit leaves the loop and ends the
\* process, and so does any other exception that execute() lets through: the
\* loop has no handler for it.
Execute ==
    /\ pc = "execute"
    /\ \E r \in execute(command, cwd, fs) :
         /\ cwd' = r.cwd
         /\ fs' = r.fs
         /\ spawned' = spawned \o r.spawned
         /\ IF r.exit = None
            THEN /\ pc' = "print"
                 /\ exit_status' = exit_status
                 /\ output' = r.ret
                 /\ stderr' = stderr \o r.stderr
            ELSE IF r.exit.kind = "SystemExit"
            THEN /\ pc' = "exited"
                 /\ exit_status' = r.exit
                 /\ output' = output
                 /\ stderr' = stderr \o r.stderr
            ELSE /\ pc' = "crashed"
                 /\ exit_status' = r.exit
                 /\ output' = output
                 /\ stderr' = stderr \o r.stderr \o <<Traceback(r.exit.kind)>>
    /\ UNCHANGED <<running, user_input, command, stdout, iter, scanVars>>

\* Shell.print, and back to the top of the loop, where the locals of the
\* iteration (user_input, command, output) are dead.
PrintOutput ==
    /\ pc = "print"
    /\ stdout' = IF Truthy(output) THEN Append(stdout, output.text \o <<"\n">>)
                 ELSE stdout
    /\ pc' = "read"
    /\ user_input' = <<>>
    /\ command' = NoCommand
    /\ output' = None
    /\ UNCHANGED <<running, cwd, fs, stderr, exit_status, spawned, iter, scanVars>>

ShellInit ==
    /\ running = TRUE
    /\ command = NoCommand
    /\ output = None
    /\ cwd = <<>>
    /\ fs = InitFs
    /\ stdout = <<>>
    /\ stderr = <<>>
    /\ exit_status = None
    /\ spawned = <<>>
    /\ iter = 0

ScanInit ==
    /\ i = ScanStart.i
    /\ words = ScanStart.words
    /\ current_word = ScanStart.current_word
    /\ error = ScanStart.error
    /\ in_single_quote = MainStart.in_single_quote
    /\ in_double_quote = MainStart.in_double_quote
    /\ raw_tokens = MainStart.tokens
    /\ current_token = MainStart.current_token
    /\ processed_tokens = <<>>

Init ==
    /\ pc = "read"
    /\ user_input = <<>>
    /\ ShellInit
    /\ ScanInit

Next == Read \/ ReadInterrupt \/ ReadEOF \/ Eval \/ Execute \/ PrintOutput

Spec == Init /\ [][Next]_vars

----------------------------------------------------------------------------
(* get_command and the run of its command, on one line *)

Alphabet == {"a", " ", "'", "\"", "\\", "$", "\n"}
CharLines == SeqsUpTo(Alphabet, MaxLen)

FactoryWords ==
    { echo, exit, <<"3">>, <<"f">>, <<">">>, <<"1", ">">>,
      <<"'", ">", " ", "g", "'">>, <<"\\", "'">> }
WordLines == { Join(ws, <<" ">>) : ws \in SeqsUpTo(FactoryWords, MaxWords) }

\* Lines `exit <argument>`, alone and with a redirection.
NineteenNines == [k \in 1..19 |-> "9"]
ExitArguments ==
    { <<"3">>, <<"-", "3">>, <<"+", "0", "3">>, <<"a">>, <<"3", ".", "0">>, <<"-">>,
      Append(NineteenNines, "9") }
ExitLines ==
    { Join(<<exit, a>> \o r, <<" ">>) : a \in ExitArguments, r \in RedirectWords }

FactoryInit ==
    /\ pc = "eval"
    /\ user_input \in CharLines \cup WordLines \cup ExitLines
    /\ ShellInit
    /\ ScanInit

FactoryNext == Eval \/ Execute \/ PrintOutput

FactorySpec == FactoryInit /\ [][FactoryNext]_vars

----------------------------------------------------------------------------
(* type and external commands, run on the file systems PATH can lead to *)

PathLines ==
    { Join(ws, <<" ">>) :
        ws \in { <<type, <<"f">> >>, <<type, echo>>, <<type, <<"g">> >>,
                 <<<<"f">>>>, << <<"f">>, <<"a">> >>, <<<<"g">>>> } }

\* What a directory of PATH can hold under a name.
PathEntries == {Missing, Directory(TRUE), File(<<"#">>, FALSE), File(<<"#">>, TRUE)}

WithEntry(f, path, entry) ==
    IF entry = Missing THEN [p \in DOMAIN f \ {path} |-> f[p]]
    ELSE Store(f, path, entry)

\* The directories of PATH with every choice of entries called f and echo.
PathFileSystems ==
    { WithEntry(WithEntry(WithEntry(InitFs, << <<"d">>, <<"f">> >>, e1),
                          << <<"b">>, <<"f">> >>, e2),
                << <<"b">>, echo >>, e3) :
        e1 \in PathEntries, e2 \in PathEntries, e3 \in {Missing, File(<<"#">>, TRUE)} }

PathInit ==
    /\ pc = "eval"
    /\ user_input \in PathLines
    /\ running = TRUE
    /\ command = NoCommand
    /\ output = None
    /\ cwd = <<>>
    /\ fs \in PathFileSystems
    /\ stdout = <<>>
    /\ stderr = <<>>
    /\ exit_status = None
    /\ spawned = <<>>
    /\ iter = 0
    /\ ScanInit

PathNext == Eval \/ Execute \/ PrintOutput

PathSpec == PathInit /\ [][PathNext]_vars

----------------------------------------------------------------------------
(* split_input, one iteration of its outer loop at a time *)

Scan == [i |-> i, words |-> words, current_word |-> current_word, error |-> error]

ScanTo(st) ==
    /\ i' = st.i
    /\ words' = st.words
    /\ current_word' = st.current_word
    /\ error' = st.error
    /\ pc' = IF st.error # NoError THEN "raised" ELSE "scan"
    /\ UNCHANGED <<user_input, shellVars, mainVars>>

InLoop == pc = "scan" /\ i < Len(user_input)

Whitespace ==
    /\ InLoop /\ IsSpace(At(user_input, i))
    /\ ScanTo(OuterStep(user_input, Scan))

SingleQuote ==
    /\ InLoop /\ At(user_input, i) = "'"
    /\ ScanTo(OuterStep(user_input, Scan))

DoubleQuote ==
    /\ InLoop /\ At(user_input, i) = "\""
    /\ ScanTo(OuterStep(user_input, Scan))

Backslash ==
    /\ InLoop /\ At(user_input, i) = "\\"
    /\ ScanTo(OuterStep(user_input, Scan))

NormalChar ==
    /\ InLoop /\ ~IsSpace(At(user_input, i))
    /\ At(user_input, i) \notin {"'", "\"", "\\"}
    /\ ScanTo(OuterStep(user_input, Scan))

Return ==
    /\ pc = "scan" /\ i >= Len(user_input)
    /\ words' = ReturnWords(Scan).words
    /\ pc' = "returned"
    /\ UNCHANGED <<i, current_word, error, user_input, shellVars, mainVars>>

TokInit ==
    /\ pc = "scan"
    /\ user_input \in CharLines
    /\ ShellInit
    /\ ScanInit

TokNext == Whitespace \/ SingleQuote \/ DoubleQuote \/ Backslash \/ NormalChar \/ Return

TokSpec == TokInit /\ [][TokNext]_vars

\* split_input is one sequential call: the interpreter keeps executing the
\* while loop until the loop test fails, a raise or the return ends the call.
TokFairSpec == TokSpec /\ WF_vars(TokNext)

----------------------------------------------------------------------------
(* main.py's split_input, one iteration of its loop at a time *)

MainScan == [i |-> i, tokens |-> raw_tokens, current_token |-> current_token,
             in_single_quote |-> in_single_quote,
             in_double_quote |-> in_double_quote]

MainTo(st) ==
    /\ i' = st.i
    /\ raw_tokens' = st.tokens
    /\ current_token' = st.current_token
    /\ in_single_quote' = st.in_single_quote
    /\ in_double_quote' = st.in_double_quote
    /\ pc' = "scan"
    /\ UNCHANGED <<user_input, shellVars, words, current_word, error,
                   processed_tokens>>

MainSingleQuote ==
    /\ InLoop /\ At(user_input, i) = "'" /\ ~in_double_quote
    /\ MainTo(MainStep(user_input, MainScan))

MainDoubleQuote ==
    /\ InLoop /\ At(user_input, i) = "\"" /\ ~in_single_quote
    /\ MainTo(MainStep(user_input, MainScan))

MainSpace ==
    /\ InLoop /\ At(user_input, i) = " "
    /\ ~in_single_quote /\ ~in_double_quote
    /\ MainTo(MainStep(user_input, MainScan))

MainAppend ==
    /\ InLoop
    /\ ~(At(user_input, i) = "'" /\ ~in_double_quote)
    /\ ~(At(user_input, i) = "\"" /\ ~in_single_quote)
    /\ ~(At(user_input, i) = " " /\ ~in_single_quote /\ ~in_double_quote)
    /\ MainTo(MainStep(user_input, MainScan))

\* The end of the call: a ValueError for an unclosed quote, or the return.
MainReturn ==
    /\ pc = "scan" /\ i >= Len(user_input)
    /\ LET r == MainFinish(MainScan)
       IN /\ raw_tokens' = Flush(raw_tokens, current_token)
          /\ error' = r.error
          /\ processed_tokens' = r.words
          /\ pc' = IF r.error # NoError THEN "raised" ELSE "returned"
    /\ UNCHANGED <<i, current_token, in_single_quote, in_double_quote,
                   user_input, shellVars, words, current_word>>

MainInit ==
    /\ pc = "scan"
    /\ user_input \in CharLines
    /\ ShellInit
    /\ ScanInit

MainNext ==
    MainSingleQuote \/ MainDoubleQuote \/ MainSpace \/ MainAppend \/ MainReturn

MainSpec == MainInit /\ [][MainNext]_vars

----------------------------------------------------------------------------
(* Claims about get_command (FactorySpec) *)

\* C1: the command get_command returns is a non-Redirect command, or a
\* Redirect whose inner command is not itself a Redirect.
C1_NoNestedRedirect ==
    command.kind = "Redirect" => command.command.kind # "Redirect"

\* C2: when the first `>` or `1>` is at index k with a token after it,
\* get_command returns Redirect(inner, tokens[k+1]) where inner is the command
\* the dispatch rules give for the tokens tokens[0:k] themselves.
C2_InnerFromTokens ==
    LET r == split_input(user_input)
        tokens == r.words
        k == FirstRedirect(tokens, 0)
    IN (pc = "execute" /\ r.error = NoError /\ k # -1 /\ k < Len(tokens) - 1)
       => command = RedirectCommand(IF k = 0 THEN InvalidCommand(<<>>)
                                    ELSE Dispatch(SubSeq(tokens, 1, k)),
                                    At(tokens, k + 1))

----------------------------------------------------------------------------
(* Claims about the REPL loop (Spec) *)

RECURSIVE ExitOf(_)
ExitOf(cmd) ==
    IF cmd.kind = "Exit" THEN [kind |-> "SystemExit", code |-> cmd.exit_code]
    ELSE IF cmd.kind = "Redirect" THEN ExitOf(cmd.command)
    ELSE None

\* C4: running Exit(code), directly or as the inner command of a Redirect,
\* ends the REPL with exit status code: nothing is printed, no file is written,
\* and no step of the loop follows.
C4_ExitTerminates ==
    [][/\ pc # "exited"
       /\ (pc = "execute" /\ ExitOf(command) # None)
          => /\ pc' = "exited"
             /\ exit_status' = ExitOf(command)
             /\ stdout' = stdout
             /\ fs' = fs]_vars

C4_Witness ==
    /\ pc = "exited"
    /\ command.kind = "Redirect"
    /\ exit_status = [kind |-> "SystemExit", code |-> <<"3">>]

WarningWritten ==
    /\ stderr' # stderr
    /\ stderr'[Len(stderr')][1] = "Error writing to file "

\* C5: a file's content is the text of the inner command of the most recent
\* successfully written Redirect targeting it: running a command changes an
\* existing file only by a Redirect to it that is written without failure,
\* and then the file holds the inner command's text.
C5_FileIsLastRedirectText ==
    [][pc = "execute" =>
         \A p \in DOMAIN fs :
             (fs[p].type = "file" /\ fs'[p] # fs[p]) =>
                 /\ command.kind = "Redirect"
                 /\ p = AbsPath(cwd', command.filename)
                 /\ ~WarningWritten
                 /\ \E r \in execute(command.command, cwd, fs) :
                        r.ret # None /\ fs'[p].content = r.ret.text]_vars

\* C6: a Redirect whose inner command yields an output yields the empty
\* text and prints nothing, also when its target cannot be opened (here: it
\* is a directory): then the files are unchanged, a warning is written to
\* standard error, and the loop goes on to its next read.
C6_RedirectYieldsEmpty ==
    [][/\ (/\ pc = "execute" /\ command.kind = "Redirect"
           /\ \A r \in execute(command.command, cwd, fs) : r.exit = None)
          => /\ pc' = "print"
             /\ output' = Str(<<>>)
             /\ stdout' = stdout
             /\ Lookup(fs, AbsPath(cwd', command.filename)).type = "dir"
                => (fs' = fs /\ WarningWritten)
       /\ (pc = "print" /\ command.kind = "Redirect")
          => /\ stdout' = stdout
             /\ pc' = "read"
             /\ running']_vars

C6_Witness ==
    /\ pc = "print"
    /\ command.kind = "Redirect"
    /\ output = Str(<<>>)
    /\ stderr # <<>>
    /\ stderr[Len(stderr)][1] = "Error writing to file "
    /\ Lookup(fs, AbsPath(cwd, command.filename)).type = "dir"

\* C7: running a command gives exactly one outcome, Output(text) with text a
\* string or Terminate(code); a successful Cd gives Output(""), so a Redirect
\* wrapping it writes the empty text to its target with no warning.
C7_OneOutcome ==
    [][pc = "execute" =>
         /\ \/ pc' = "print" /\ output'.kind = "str"
            \/ pc' = "exited" /\ exit_status'.kind = "SystemExit"
         /\ (/\ command.kind = "Redirect"
             /\ command.command.kind = "Cd"
             /\ chdir(cwd, fs, expanduser(command.command.target_directory)).error = "none"
             /\ Lookup(fs, AbsPath(cwd', command.filename)).type # "dir")
            => /\ stderr' = stderr
               /\ Lookup(fs', AbsPath(cwd', command.filename)).type = "file"
               /\ Lookup(fs', AbsPath(cwd', command.filename)).content = <<>>]_vars

----------------------------------------------------------------------------
(* Claims about the tokenizer *)

\* The quoting state at the end of a line, read one character at a time from
\* index k (1-based) in state q; a backslash outside single quotes takes the
\* next character with it.
RECURSIVE QuoteState(_, _, _)
QuoteState(s, k, q) ==
    IF k > Len(s) THEN q
    ELSE IF q = "InSingleQuote"
         THEN QuoteState(s, k + 1, IF s[k] = "'" THEN "Normal" ELSE q)
    ELSE IF s[k] = "\\" THEN QuoteState(s, k + 2, q)
    ELSE IF q = "InDoubleQuote"
         THEN QuoteState(s, k + 1, IF s[k] = "\"" THEN "Normal" ELSE q)
    ELSE QuoteState(s, k + 1, IF s[k] = "'" THEN "InSingleQuote"
                              ELSE IF s[k] = "\"" THEN "InDoubleQuote"
                              ELSE q)

UnclosedMessage(q) ==
    IF q = "InSingleQuote" THEN <<"Unclosed single quote in input">>
    ELSE <<"Unclosed double quote in input">>

\* C8: tokenizing fails exactly when the line ends inside a single or a double
\* quote; the error names that quote and no tokens are returned; get_command
\* gives Invalid(message), whose run gives "<message>: command not found" and
\* does not end the process.
C8_UnclosedQuote ==
    LET q == QuoteState(user_input, 1, "Normal")
        r == split_input(user_input)
    IN /\ (r.error # NoError) <=> (q # "Normal")
       /\ q # "Normal" =>
            /\ r.error = UnclosedMessage(q)
            /\ r.words = <<>>
            /\ pc \in {"eval", "execute", "print"}
            /\ pc \in {"execute", "print"} => command = InvalidCommand(UnclosedMessage(q))
            /\ pc = "print" =>
                 output = Str(UnclosedMessage(q) \o <<": command not found">>)

C8_Witness ==
    /\ pc = "print"
    /\ QuoteState(user_input, 1, "Normal") = "InDoubleQuote"
    /\ user_input[Len(user_input)] = "\""
    /\ output = Str(<<"Unclosed double quote in input", ": command not found">>)

\* The part each character of a line plays, read one character at a time
\* from index k in quoting state q; esc: the character follows a backslash
\* that escapes it. "delimiter": whitespace outside quotes and not escaped;
\* "removed": a quote character or an escaping backslash; "kept": the rest.
RECURSIVE Labels(_, _, _, _)
Labels(s, k, q, esc) ==
    IF k > Len(s) THEN <<>>
    ELSE IF esc THEN <<"kept">> \o Labels(s, k + 1, q, FALSE)
    ELSE IF q = "InSingleQuote"
         THEN IF s[k] = "'" THEN <<"removed">> \o Labels(s, k + 1, "Normal", FALSE)
              ELSE <<"kept">> \o Labels(s, k + 1, q, FALSE)
    ELSE IF q = "InDoubleQuote"
         THEN IF s[k] = "\"" THEN <<"removed">> \o Labels(s, k + 1, "Normal", FALSE)
              ELSE IF s[k] = "\\" /\ k < Len(s)
                   THEN <<IF s[k + 1] \in {"\"", "\\", "$", "\n"} THEN "removed" ELSE "kept">>
                        \o Labels(s, k + 1, q, TRUE)
              ELSE <<"kept">> \o Labels(s, k + 1, q, FALSE)
    ELSE IF s[k] \in {" ", "\t", "\n", "\r"}
         THEN <<"delimiter">> \o Labels(s, k + 1, q, FALSE)
    ELSE IF s[k] = "'" THEN <<"removed">> \o Labels(s, k + 1, "InSingleQuote", FALSE)
    ELSE IF s[k] = "\"" THEN <<"removed">> \o Labels(s, k + 1, "InDoubleQuote", FALSE)
    ELSE IF s[k] = "\\" /\ k < Len(s) THEN <<"removed">> \o Labels(s, k + 1, q, TRUE)
    ELSE <<"kept">> \o Labels(s, k + 1, q, FALSE)

\* The tokens the labels give: the kept characters between delimiters, a
\* stretch with no kept character giving no token.
RECURSIVE Group(_, _, _, _, _)
Group(s, labels, k, cur, toks) ==
    IF k > Len(s) THEN IF cur # <<>> THEN Append(toks, cur) ELSE toks
    ELSE IF labels[k] = "delimiter"
         THEN Group(s, labels, k + 1, <<>>, IF cur # <<>> THEN Append(toks, cur) ELSE toks)
    ELSE IF labels[k] = "kept" THEN Group(s, labels, k + 1, Append(cur, s[k]), toks)
    ELSE Group(s, labels, k + 1, cur, toks)

\* C9: the tokens returned are the stretches of the line between runs of
\* whitespace that is outside quotes and not escaped: a run is one boundary,
\* leading and trailing whitespace give no token, whitespace inside quotes
\* stays in its token, and quoted and unquoted segments that touch are one
\* token without the quote characters.
C9_TokenBoundaries ==
    pc = "returned" =>
        words = Group(user_input, Labels(user_input, 1, "Normal", FALSE), 1, <<>>, <<>>)

C9_Witness ==
    /\ pc = "returned"
    /\ user_input = <<" ", "a", "'", " ", "'">>
    /\ words = << <<"a", " ">> >>

\* The text a double-quoted segment contributes, read one character at a
\* time; pending: the previous character was a backslash not yet accounted
\* for. ok: no unescaped `"` inside the segment and no backslash left pending.
RECURSIVE DoubleQuoted(_, _, _, _)
DoubleQuoted(seg, k, pending, acc) ==
    IF k > Len(seg) THEN [text |-> acc, ok |-> ~pending]
    ELSE IF pending
         THEN DoubleQuoted(seg, k + 1, FALSE,
                           IF seg[k] \in {"\"", "\\", "$", "\n"} THEN Append(acc, seg[k])
                           ELSE acc \o <<"\\", seg[k]>>)
    ELSE IF seg[k] = "\\" THEN DoubleQuoted(seg, k + 1, TRUE, acc)
    ELSE IF seg[k] = "\"" THEN [text |-> acc, ok |-> FALSE]
    ELSE DoubleQuoted(seg, k + 1, FALSE, Append(acc, seg[k]))

\* C10: a double-quoted segment that is closed adds to the current token its
\* characters with `\c` giving c alone for c one of `"`, `\`, `$`, newline and
\* `\c` unchanged for any other c; it ends at the first `"` that no backslash
\* escapes, which is not added, and it completes no token.
C10_DoubleQuoteEscapes ==
    [][(pc = "scan" /\ i < Len(user_input) /\ At(user_input, i) = "\"" /\ pc' = "scan")
       => LET seg == SubSeq(user_input, i + 2, i' - 1)
              r == DoubleQuoted(seg, 1, FALSE, <<>>)
          IN /\ i' >= i + 2
             /\ At(user_input, i' - 1) = "\""
             /\ r.ok
             /\ current_word' = current_word \o r.text
             /\ words' = words]_vars

C10_Witness ==
    /\ pc = "scan"
    /\ user_input = <<"\"", "\\", "\"", "a", "\"">>
    /\ i = 5
    /\ current_word = <<"\"", "a">>
    /\ words = <<>>

\* C11: every token the tokenizer returns is a non-empty string. (No token
\* is empty, so none needs the exception the claim allows: an empty quoted
\* segment standing alone between delimiters adds no token at all.)
C11_TokensNonEmpty ==
    \A k \in 1..Len(words) : words[k] # <<>>

C11_Witness ==
    /\ pc = "returned"
    /\ user_input = <<"a", " ", "'", "'">>
    /\ words = << <<"a">> >>

\* C12: outside quotes a backslash followed by a character c adds c alone to
\* the current token, whatever c is (whitespace, a quote, a backslash): the
\* backslash is dropped, no token is completed, no quote is opened and the
\* scan goes on after c; a backslash that ends the line adds itself.
C12_BackslashEscapes ==
    [][(pc = "scan" /\ i < Len(user_input) /\ At(user_input, i) = "\\")
       => /\ pc' = "scan"
          /\ error' = NoError
          /\ words' = words
          /\ IF i + 1 < Len(user_input)
             THEN /\ current_word' = Append(current_word, At(user_input, i + 1))
                  /\ i' = i + 2
             ELSE /\ current_word' = Append(current_word, "\\")
                  /\ i' = i + 1]_vars

C12_Witness ==
    /\ pc = "returned"
    /\ user_input = <<"\\", " ", "\\", "'", "\\">>
    /\ words = << <<" ", "'", "\\">> >>

----------------------------------------------------------------------------
(* Claims about the loop and the commands (Spec, PathSpec, FactorySpec) *)

\* C13: the loop stops only through the Terminate of an exit or through end
\* of input at the read step; after a command that gave an output, and after
\* an interrupt of the read step, the loop is at its read step again, still
\* running, and the next thing it writes is the next prompt.
C13_LoopStopsOnlyByExit ==
    [][/\ (pc' \notin {"read", "eval", "execute", "print"} \/ ~running')
          => \/ pc = "execute" /\ ExitOf(command) # None /\ pc' = "exited"
             \/ pc = "read" /\ stdout' = stdout \o <<Prompt, EofNotice>>
       /\ pc = "execute"
          => \/ pc' = "print"
             \/ pc' = "exited" /\ ExitOf(command) # None
       /\ pc = "print" => (pc' = "read" /\ running')
       /\ (pc = "read" /\ stdout' = stdout \o <<Prompt, InterruptNotice>>)
          => (pc' = "read" /\ running')
       /\ (pc = "read" /\ pc' = "eval") => stdout' = Append(stdout, Prompt)]_vars

\* The command a line runs first: what is inside its Redirects.
RECURSIVE Innermost(_)
Innermost(cmd) == IF cmd.kind = "Redirect" THEN Innermost(cmd.command) ELSE cmd

\* How entering the directory path fares, one component at a time from the
\* k-th: "not found", "not a directory", "permission denied", "none" when
\* every component is a directory that can be entered, and "other" for a
\* name no directory can hold.
RECURSIVE CdFailure(_, _, _)
CdFailure(f, path, k) ==
    IF k > Len(path) THEN "none"
    ELSE LET p == SubSeq(path, 1, k)
         IN IF TextLen(path[k]) > NAME_MAX THEN "other"
            ELSE IF p \notin DOMAIN f THEN "not found"
            ELSE IF f[p].type = "file" THEN "not a directory"
            ELSE IF ~f[p].access THEN "permission denied"
            ELSE CdFailure(f, path, k + 1)

CdErrorText(target, failure) ==
    <<"cd: ">> \o target
    \o (IF failure = "not found" THEN <<": No such file or directory">>
        ELSE IF failure = "not a directory" THEN <<": Not a directory">>
        ELSE <<": Permission denied">>)

\* C14: the working directory changes only at a step that runs a Cd whose
\* target exists, is a directory and can be entered, and it becomes that
\* target; a Cd that fails (not found, not a directory, permission denied)
\* gives its error text and leaves the working directory as it was; every
\* other command leaves it as it was, and Pwd gives the working directory,
\* that is the target of the last Cd that succeeded.
C14_CwdChangesOnlyByCd ==
    [][LET c == Innermost(command)
           target == IF c.kind = "Cd"
                     THEN AbsPath(cwd, expanduser(c.target_directory)) ELSE <<>>
           failure == CdFailure(fs, target, 1)
       IN /\ cwd' # cwd
             => /\ pc = "execute" /\ c.kind = "Cd"
                /\ failure = "none"
                /\ cwd' = target
          /\ (pc = "execute" /\ c.kind = "Cd" /\ failure = "none") => cwd' = target
          /\ (/\ pc = "execute" /\ command.kind = "Cd"
              /\ failure \in {"not found", "not a directory", "permission denied"})
             => /\ pc' = "print"
                /\ output' = Str(CdErrorText(command.target_directory, failure))
                /\ cwd' = cwd
          /\ (pc = "execute" /\ command.kind = "Pwd")
             => /\ pc' = "print"
                /\ output' = Str(PathText(cwd))
                /\ cwd' = cwd]_vars

C14_Witness ==
    /\ pc = "print"
    /\ command.kind = "Pwd"
    /\ cwd = << <<"d">> >>
    /\ output = Str(<<"/", "d">>)
    /\ Len(stdout) = 4
    /\ stdout[3] = <<"cd: ", "n", ": No such file or directory", "\n">>

\* The directories of PATH, by index, that hold an entry called name.
PathHits(name) ==
    {k \in 1..Len(PathDirs) : Append(Components(PathDirs[k]), name) \in DOMAIN fs}

\* C15: Type(name) gives "<name> is a shell builtin" for the six builtin
\* names whatever the directories of PATH hold; for another name it gives
\* "<name> is <directory>/<name>" for the first directory of PATH holding an
\* entry called name, executable or not, and "<name>: not found" exactly
\* when no directory of PATH holds one.
C15_TypeReports ==
    (pc = "print" /\ command.kind = "Type")
    => LET name == command.command_name
           hits == PathHits(name)
           first == CHOOSE k \in hits : \A j \in hits : k <= j
       IN output = Str(IF name \in {help, exit, echo, type, pwd, cd}
                       THEN name \o <<" is a shell builtin">>
                       ELSE IF hits = {} THEN name \o <<": not found">>
                       ELSE name \o <<" is ">> \o PathDirs[first] \o <<"/">> \o name)

C15_Witness ==
    /\ pc = "print"
    /\ command = TypeCommand(<<"f">>)
    /\ Lookup(fs, << <<"d">>, <<"f">> >>) = File(<<"#">>, FALSE)
    /\ Lookup(fs, << <<"b">>, <<"f">> >>) = File(<<"#">>, TRUE)
    /\ output = Str(<<"f", " is ", "/", "d", "/", "f">>)

\* The directories of PATH, by index, whose entry called name is a regular
\* file with execute permission.
ExecutableHits(name) ==
    {k \in PathHits(name) :
        LET e == fs[Append(Components(PathDirs[k]), name)]
        IN e.type = "file" /\ e.executable}

\* C16: External(name, args) launches <directory>/<name> for the first
\* directory of PATH whose entry called name is a regular file with execute
\* permission, passing over directories where the entry is missing, not a
\* regular file or not executable, with the argument vector [name] + args;
\* what it returns is the standard output of the child, and it prints
\* nothing itself; it gives "<name>: command not found", launching nothing,
\* exactly when no directory of PATH has such a file.
C16_ExternalLaunches ==
    [][(pc = "execute" /\ command.kind = "External")
       => LET name == command.command_name
              hits == ExecutableHits(name)
              first == CHOOSE k \in hits : \A j \in hits : k <= j
              notFound == Str(name \o <<": command not found">>)
          IN /\ pc' = "print"
             /\ stdout' = stdout
             /\ IF hits = {}
                THEN output' = notFound /\ spawned' = spawned
                ELSE /\ spawned' =
                          Append(spawned,
                                 [executable |-> PathDirs[first] \o <<"/">> \o name,
                                  args |-> <<name>> \o command.arguments])
                     /\ output' # notFound
                     /\ \/ \E c \in ChildResults : ~c.raised /\ output' = Str(c.stdout)
                        \/ output'.text[1] = "Error while executing "]_vars

C16_Witness ==
    /\ pc = "print"
    /\ command = ExternalCommand(<<"f">>, << <<"a">> >>)
    /\ Lookup(fs, << <<"d">>, <<"f">> >>) = File(<<"#">>, FALSE)
    /\ Lookup(fs, << <<"b">>, <<"f">> >>) = File(<<"#">>, TRUE)
    /\ spawned = << [executable |-> <<"/", "b", "/", "f">>,
                     args |-> << <<"f">>, <<"a">> >>] >>
    /\ output = Str(<<"o", "\n">>)
    /\ stdout = <<>>

\* A base-10 signed integer: an optional sign, then one digit or more.
IsSignedDecimal(t) ==
    LET ds == IF t # <<>> /\ Head(t) \in {"+", "-"} THEN Tail(t) ELSE t
    IN ds # <<>> /\ \A k \in 1..Len(ds) : IsDigit(ds[k])

\* a <= b for two runs of digits of the same length.
RECURSIVE DigitsLeq(_, _)
DigitsLeq(a, b) ==
    IF a = <<>> THEN TRUE
    ELSE LET x == CHOOSE d \in 1..10 : Digits[d] = Head(a)
             y == CHOOSE d \in 1..10 : Digits[d] = Head(b)
         IN x < y \/ (x = y /\ DigitsLeq(Tail(a), Tail(b)))

\* The largest 64-bit signed integer, 2^63 - 1, and the size of -2^63.
Int64Max ==
    <<"9", "2", "2", "3", "3", "7", "2", "0", "3", "6",
      "8", "5", "4", "7", "7", "5", "8", "0", "7">>
Int64MinSize ==
    <<"9", "2", "2", "3", "3", "7", "2", "0", "3", "6",
      "8", "5", "4", "7", "7", "5", "8", "0", "8">>

\* In range: the integer fits a 64-bit signed integer.
InRange(t) ==
    LET negative == Head(t) = "-"
        ds == StripZeros(IF Head(t) \in {"+", "-"} THEN Tail(t) ELSE t)
        limit == IF negative THEN Int64MinSize ELSE Int64Max
    IN Len(ds) < Len(limit) \/ (Len(ds) = Len(limit) /\ DigitsLeq(ds, limit))

\* C17: for a line whose first token is exit and that has no redirection:
\* with no second token the command is Exit(0); with a second token that is
\* a base-10 signed integer n in range it is Exit(n); with any other second
\* token it is Invalid("exit"), whose run gives "exit: command not found"
\* and never ends the process.
C17_ExitArgument ==
    LET r == split_input(user_input)
        tokens == r.words
        t == tokens[2]
        n == PyInt(Head(t) = "-", IF Head(t) \in {"+", "-"} THEN Tail(t) ELSE t)
    IN (/\ r.error = NoError /\ tokens # <<>> /\ tokens[1] = exit
        /\ FirstRedirect(tokens, 0) = -1
        /\ pc \in {"execute", "print", "exited"})
       => IF Len(tokens) = 1 THEN command = ExitCommand(<<"0">>)
          ELSE IF IsSignedDecimal(t) /\ InRange(t) THEN command = ExitCommand(n)
          ELSE /\ command = InvalidCommand(exit)
               /\ pc # "exited"
               /\ pc = "print" => output = Str(<<"e", "x", "i", "t", ": command not found">>)

\* The index (0-based) of the first token that is `>` or `1>`, -1 if none.
OperatorIndex(tokens) ==
    LET at == {k \in 1..Len(tokens) : tokens[k] \in {<<">">>, <<"1", ">">>}}
    IN IF at = {} THEN -1 ELSE (CHOOSE k \in at : \A j \in at : k <= j) - 1

\* C18: when the first `>` or `1>` is at index k and a target follows it, the
\* command is a Redirect to tokens[k+1], and it is the same command whatever
\* tokens come after the target: a line and the line with one more word
\* after it, a further `>` or `1>` included, give equal commands.
C18_TrailingTokensIgnored ==
    LET r == split_input(user_input)
        tokens == r.words
        k == OperatorIndex(tokens)
    IN (pc = "execute" /\ r.error = NoError /\ k # -1 /\ k < Len(tokens) - 1)
       => /\ command.kind = "Redirect"
          /\ command.filename = At(tokens, k + 1)
          /\ \A w \in FactoryWords :
                LET longer == user_input \o <<" ">> \o w
                    e == split_input(longer)
                IN (/\ e.error = NoError
                    /\ Len(e.words) > Len(tokens)
                    /\ SubSeq(e.words, 1, Len(tokens)) = tokens)
                   => get_command(longer) = command

C18_Witness ==
    /\ pc = "execute"
    /\ user_input = <<"e", "c", "h", "o", " ", ">", " ", "f", " ", ">">>
    /\ command = RedirectCommand(EchoCommand(<<>>), <<"f">>)

\* When the first `>` or `1>` is the last token: the command is Invalid with
\* the given reason, no Redirect is built, no file is opened or changed, and
\* the run gives "<reason>: command not found".
OperatorLastGives(reason) ==
    LET r == split_input(user_input)
        tokens == r.words
        k == OperatorIndex(tokens)
    IN (/\ r.error = NoError /\ k # -1 /\ k = Len(tokens) - 1
        /\ pc \in {"execute", "print"})
       => /\ command = InvalidCommand(<<reason>>)
          /\ fs = InitFs
          /\ pc = "print" => output = Str(<<reason, ": command not found">>)

\* C19 as stated: when the first `>` or `1>` is the last token of the line,
\* get_command returns Invalid with the reason "no file specified for
\* redirection"; no Redirect is built and no file is opened.
C19_ReasonAsStated ==
    OperatorLastGives("no file specified for redirection")

\* C19, amended: the reason is "No file specified for redirection", with a
\* capital N; the rest as stated.
C19_NoFileSpecified ==
    OperatorLastGives("No file specified for redirection")

C19_Witness ==
    /\ pc = "print"
    /\ user_input = <<"e", "c", "h", "o", " ", "3", " ", "1", ">">>
    /\ command = InvalidCommand(<<"No file specified for redirection">>)
    /\ output = Str(<<"No file specified for redirection", ": command not found">>)
    /\ fs = InitFs

\* C20: with PATH and the file system fixed, whenever External(name, args)
\* launches the program <dir>/<name>, Type(name) run on the same file system
\* gives "<name> is <dir>/<name>": the path type shows is the one that is run.
C20_TypeShowsWhatRuns ==
    [][(pc = "execute" /\ command.kind = "External" /\ spawned' # spawned)
       => LET name == command.command_name
              launched == spawned'[Len(spawned')].executable
          IN \A t \in execute(TypeCommand(name), cwd, fs) :
                t.ret = Str(name \o <<" is ">> \o launched)]_vars

----------------------------------------------------------------------------
(* Claims about the termination of split_input (TokFairSpec) *)

\* The first `'` at or after position k, or the length of s when there is none.
ClosingSingle(s, k) ==
    LET S == { j \in k..(Len(s) - 1) : At(s, j) = "'" }
    IN IF S = {} THEN Len(s) ELSE CHOOSE j \in S : \A m \in S : j <= m

\* The first `"` at or after position k that no backslash escapes, read one
\* character at a time, or the length of s when there is none.
RECURSIVE ClosingDouble(_, _, _)
ClosingDouble(s, k, escaped) ==
    IF k >= Len(s) THEN Len(s)
    ELSE IF escaped THEN ClosingDouble(s, k + 1, FALSE)
    ELSE IF At(s, k) = "\\" THEN ClosingDouble(s, k + 1, TRUE)
    ELSE IF At(s, k) = "\"" THEN k
    ELSE ClosingDouble(s, k + 1, FALSE)

\* A quote opened at position i is closed at position c: the scan goes on
\* right after c, or raises `unclosed` when c is the end of the line.
QuoteAdvance(c, unclosed) ==
    IF c < Len(user_input)
    THEN pc' = "scan" /\ i' = c + 1 /\ error' = NoError
    ELSE pc' = "raised" /\ i' = Len(user_input) /\ error' = unclosed

\* C21: split_input terminates on every line: every iteration of the outer
\* loop, whatever its branch, moves the index forward by at least one and
\* never beyond the end of the line; a quote branch stops right after the
\* first closing quote it has not read as escaped, or raises the
\* unclosed-quote error when there is none; the other branches raise
\* nothing; and the scan ends, by returning the tokens or by raising an
\* unclosed-quote error.
C21_Terminates ==
    /\ [][pc = "scan" =>
            IF i < Len(user_input)
            THEN /\ i' >= i + 1
                 /\ i' <= Len(user_input)
                 /\ CASE At(user_input, i) = "'" ->
                           QuoteAdvance(ClosingSingle(user_input, i + 1),
                                        UnclosedSingle)
                      [] At(user_input, i) = "\"" ->
                           QuoteAdvance(ClosingDouble(user_input, i + 1, FALSE),
                                        UnclosedDouble)
                      [] OTHER -> pc' = "scan" /\ error' = NoError
            ELSE pc' = "returned" /\ error' = NoError /\ i' = i]_vars
    /\ <>(pc \in {"returned", "raised"})

\* The line `"\""a`: the double-quote branch jumps over the escaped quote
\* to the closing one, and the scan has returned.
C21_Witness ==
    /\ pc = "returned"
    /\ user_input = <<"\"", "\\", "\"", "\"", "a">>
    /\ i = Len(user_input)
    /\ words = << <<"\"", "a">> >>

----------------------------------------------------------------------------
(* Claims about the two tokenizers (MainSpec) *)

\* C22: the split_input of main.py and the split_input of parser.py are
\* equivalent: on every line, when the one of main.py has ended, it has
\* returned the token sequence the one of parser.py returns, or raised the
\* unclosed-quote error the one of parser.py raises.
C22_TokenizersEquivalent ==
    pc \in {"returned", "raised"}
        => [error |-> error, words |-> processed_tokens] = split_input(user_input)

====
